---------------------------- MODULE Spec2Model ----------------------------
(***************************************************************************)
(* The dispatch benchmark of ebudae/benchmark-for-polymorphism.            *)
(*                                                                         *)
(* The repository holds two copies of one program:                         *)
(*   "es"  src/benchmark.rs             (Spanish comments and texts)       *)
(*   "en"  src/benchmarks/benchmark.rs  (English comments and texts)       *)
(* Each copy is a process of the model with its own program counter,       *)
(* locals, standard output and exit status; a behaviour of Spec runs one   *)
(* of them, a behaviour of SpecBoth runs the two side by side.  The body   *)
(* of main is kept as the list of its statements, one list per file,       *)
(* translated statement by statement; the actions below execute one        *)
(* statement (or one iteration of a loop driver) of one process.           *)
(*                                                                         *)
(* The environment is the monotonic clock behind Instant::now / elapsed    *)
(* and the standard output behind println!.  Spec is the program in an     *)
(* environment that works; SpecEnv adds the steps in which the clock       *)
(* cannot be read or standard output cannot be written, which panic.       *)
(***************************************************************************)
EXTENDS Integers, Sequences, FiniteSets

\* Bounds of the model.  ITERATIONS is 1_000_000_000 in both files
\* (src/benchmark.rs:3, src/benchmarks/benchmark.rs:3); the loops are
\* parametric in it, and the model draws it from 0 .. MaxIter.
MaxIter == 4
\* The readings of the monotonic clock are 0 .. MaxClock.
MaxClock == 1

Files == {"es", "en"}

Callees == {"ConcreteWorker::do_work", "work_function", "InnerObject::action"}

\* A local that no `let` has bound yet.
Unbound == -1

VARIABLES
    ITERATIONS,   \* const ITERATIONS: u64
    clock,        \* the last reading handed out by the monotonic clock
    pc,           \* pc[p]: index in main of the statement p executes next
    i,            \* i[p]: iterations the running loop driver has completed
    start,        \* start[p]: the Instant bound by `let start`
    duration,     \* duration[p]: the Duration bound by `let duration`
    constructed,  \* constructed[p]: values the `let` statements have built
    barrier,      \* barrier[p][c]: executions of the asm!("") in callee c
    wrapped,      \* wrapped[p]: calls through GenericWrapper (es only)
    out,          \* out[p]: the lines written to standard output
    events,       \* events[p]: what p has done so far, in order
    status,       \* status[p]: "idle", "running", "success" (exit 0), "failed" (panic)
    fault         \* fault[p]: the environmental fault p met, or "none"

vars == <<ITERATIONS, clock, pc, i, start, duration, constructed, barrier,
          wrapped, out, events, status, fault>>

----------------------------------------------------------------------------
(* The statements of main, per file. *)

Stmt(op, line, trial, fn, arg) ==
    [op |-> op, line |-> line, trial |-> trial, fn |-> fn, arg |-> arg]

\* The printed texts are kept without their accents.

\* src/benchmarks/benchmark.rs:59-65, Test 1: Dynamic Dispatch.
En_trial1 ==
    << Stmt("println", 60, 1, "header", "1. Dynamic Dispatch (dyn Trait) Benchmark..."),
       Stmt("let",     61, 1, "worker", "ConcreteWorker"),
       Stmt("now",     62, 1, "start", ""),
       Stmt("call",    63, 1, "run_dynamic_dispatch", "ConcreteWorker"),
       Stmt("elapsed", 64, 1, "duration", ""),
       Stmt("println", 65, 1, "time", "   Total time: {:.6?} seconds") >>

\* src/benchmarks/benchmark.rs:67-72, Test 2: Function Pointer.
En_trial2 ==
    << Stmt("println", 68, 2, "header", "\n2. Function Pointer Benchmark..."),
       Stmt("now",     69, 2, "start", ""),
       Stmt("call",    70, 2, "run_function_pointer", "work_function"),
       Stmt("elapsed", 71, 2, "duration", ""),
       Stmt("println", 72, 2, "time", "   Total time: {:.6?} seconds") >>

\* src/benchmarks/benchmark.rs:74-81, Test 3: Static Dispatch (Generics).
En_trial3 ==
    << Stmt("println", 75, 3, "header", "\n3. Static Dispatch (Generics) Benchmark..."),
       Stmt("let",     76, 3, "inner", "InnerObject"),
       Stmt("let",     77, 3, "wrapper", "closure"),
       Stmt("now",     78, 3, "start", ""),
       Stmt("call",    79, 3, "run_static_dispatch", "closure"),
       Stmt("elapsed", 80, 3, "duration", ""),
       Stmt("println", 81, 3, "time", "   Total time: {:.6?} seconds") >>

\* main with the start of Test 2 taken before its header is printed
\* (lines 68 and 69 exchanged).
En_main_start_before_header ==
    En_trial1
    \o << En_trial2[2], En_trial2[1], En_trial2[3], En_trial2[4], En_trial2[5] >>
    \o En_trial3

\* src/benchmarks/benchmark.rs, fn main.
En_main == En_trial1 \o En_trial2 \o En_trial3

\* src/benchmark.rs:76-82, Test 1: Despacho Dinamico.
Es_trial1 ==
    << Stmt("println", 77, 1, "header", "1. Benchmark de Despacho Dinamico (dyn Trait)..."),
       Stmt("let",     78, 1, "worker", "ConcreteWorker"),
       Stmt("now",     79, 1, "start", ""),
       Stmt("call",    80, 1, "run_dynamic_dispatch", "ConcreteWorker"),
       Stmt("elapsed", 81, 1, "duration", ""),
       Stmt("println", 82, 1, "time", "   Tiempo total: {:.6?} segundos") >>

\* src/benchmark.rs:84-89, Test 2: Puntero a Funcion.
Es_trial2 ==
    << Stmt("println", 85, 2, "header", "\n2. Benchmark de Puntero a Funcion..."),
       Stmt("now",     86, 2, "start", ""),
       Stmt("call",    87, 2, "run_function_pointer", "work_function"),
       Stmt("elapsed", 88, 2, "duration", ""),
       Stmt("println", 89, 2, "time", "   Tiempo total: {:.6?} segundos") >>

\* src/benchmark.rs:91-98, Test 3: Despacho Estatico (Genericos).
Es_trial3 ==
    << Stmt("println", 92, 3, "header", "\n3. Benchmark de Despacho Estatico (Genericos)..."),
       Stmt("let",     93, 3, "inner", "InnerObject"),
       Stmt("let",     94, 3, "wrapper", "closure"),
       Stmt("now",     95, 3, "start", ""),
       Stmt("call",    96, 3, "run_static_dispatch", "closure"),
       Stmt("elapsed", 97, 3, "duration", ""),
       Stmt("println", 98, 3, "time", "   Tiempo total: {:.6?} segundos") >>

\* main with Test 3 run before Test 2.
Es_main_trials_exchanged == Es_trial1 \o Es_trial3 \o Es_trial2

\* main whose Test 3 wraps the closure in the GenericWrapper of lines 51-66
\* and hands the wrapper to run_static_dispatch.
Es_main_through_wrapper ==
    Es_trial1 \o Es_trial2
    \o << Es_trial3[1], Es_trial3[2], Es_trial3[3],
          Stmt("let", 94, 3, "wrapper", "GenericWrapper"),
          Es_trial3[4],
          Stmt("call", 96, 3, "run_static_dispatch", "GenericWrapper"),
          Es_trial3[6], Es_trial3[7] >>

\* src/benchmark.rs, fn main.
Es_main == Es_trial1 \o Es_trial2 \o Es_trial3

main(p) == IF p = "es" THEN Es_main ELSE En_main

AtEnd(p) == pc[p] = Len(main(p)) + 1

\* The statement p executes next.
Cur(p) == main(p)[pc[p]]

Running(p) == status[p] = "running" /\ ~AtEnd(p)

At(p, op) == Running(p) /\ Cur(p).op = op

----------------------------------------------------------------------------
(* Events. *)

Event(ev, trial, what, s, t) ==
    [ev |-> ev, trial |-> trial, what |-> what, s |-> s, t |-> t]

Log(p, e) == [events EXCEPT ![p] = Append(@, e)]

----------------------------------------------------------------------------
\* The state of the processes in `launched` at the entry of main; a copy
\* that is not launched never runs.
Start(launched) ==
    /\ ITERATIONS \in 0 .. MaxIter
    /\ clock = 0
    /\ pc = [p \in Files |-> 1]
    /\ i = [p \in Files |-> 0]
    /\ start = [p \in Files |-> Unbound]
    /\ duration = [p \in Files |-> Unbound]
    /\ constructed = [p \in Files |-> {}]
    /\ barrier = [p \in Files |-> [c \in Callees |-> 0]]
    /\ wrapped = [p \in Files |-> 0]
    /\ out = [p \in Files |-> << >>]
    /\ events = [p \in Files |-> << >>]
    /\ status = [p \in Files |-> IF p \in launched THEN "running" ELSE "idle"]
    /\ fault = [p \in Files |-> "none"]

\* One run of one of the two programs.
Init == \E p \in Files: Start({p})

\* A run of each program, side by side.
InitBoth == Start(Files)

----------------------------------------------------------------------------
(* The callees.  Each body is `unsafe { std::arch::asm!(""); }`: it has no  *)
(* effect on the program's data, and the model counts its executions.      *)

Invoked(p, c) == Log(p, Event("call", Cur(p).trial, c, 0, 0))

asm(p, c) == [barrier EXCEPT ![p][c] = @ + 1]

\* A callee entered whose body holds no barrier.
do_work_without_asm(p) ==
    /\ events' = Invoked(p, "ConcreteWorker::do_work")
    /\ barrier' = barrier

\* impl DoWork for ConcreteWorker, #[inline(never)] fn do_work(&self)
do_work(p) ==
    /\ events' = Invoked(p, "ConcreteWorker::do_work")
    /\ barrier' = asm(p, "ConcreteWorker::do_work")

\* #[inline(never)] fn work_function()
work_function(p) ==
    /\ events' = Invoked(p, "work_function")
    /\ barrier' = asm(p, "work_function")

\* impl InnerObject, #[inline(never)] fn action(&self)
action(p) ==
    /\ events' = Invoked(p, "InnerObject::action")
    /\ barrier' = asm(p, "InnerObject::action")

\* let wrapper = || inner.action();
closure(p) == action(p)

\* impl FnMut<()> for GenericWrapper<T>: call_mut runs (self.inner)().
\* (call_once, lines 55-60, has the same body and consumes the wrapper.)
call_mut(p) ==
    /\ wrapped' = [wrapped EXCEPT ![p] = @ + 1]
    /\ closure(p)

\* worker.do_work() on a &dyn DoWork: the vtable of the value behind it.
DynCall(p, obj) == obj = "ConcreteWorker" /\ do_work(p)

\* func() on a fn(): the function the pointer holds.
PtrCall(p, func) == func = "work_function" /\ work_function(p)

\* f() on an F: Fn(): the value passed, resolved statically.
StaticCall(p, f) ==
    \/ f = "closure" /\ closure(p) /\ UNCHANGED wrapped
    \/ f = "GenericWrapper" /\ call_mut(p)

----------------------------------------------------------------------------
(* The loop drivers: one step is one iteration of `for _ in 0..ITERATIONS` *)
(* or, when the range is exhausted, the return to main.                    *)

Return(p) ==
    /\ pc' = [pc EXCEPT ![p] = @ + 1]
    /\ i' = [i EXCEPT ![p] = 0]
    /\ UNCHANGED <<barrier, events>>

Frame == <<ITERATIONS, clock, start, duration, constructed, out, status, fault>>

\* The driver as a do-while loop: the body runs before the range is tested.
run_dynamic_dispatch_do_while(p) ==
    /\ At(p, "call") /\ Cur(p).fn = "run_dynamic_dispatch"
    /\ IF i[p] = 0 \/ i[p] < ITERATIONS
       THEN /\ DynCall(p, Cur(p).arg)
            /\ i' = [i EXCEPT ![p] = @ + 1]
            /\ pc' = pc
       ELSE Return(p)
    /\ UNCHANGED <<Frame, wrapped>>

run_dynamic_dispatch(p) ==
    /\ At(p, "call") /\ Cur(p).fn = "run_dynamic_dispatch"
    /\ IF i[p] < ITERATIONS
       THEN /\ DynCall(p, Cur(p).arg)
            /\ i' = [i EXCEPT ![p] = @ + 1]
            /\ pc' = pc
       ELSE Return(p)
    /\ UNCHANGED <<Frame, wrapped>>

\* The driver with an inclusive range, 0..=ITERATIONS.
run_function_pointer_inclusive(p) ==
    /\ At(p, "call") /\ Cur(p).fn = "run_function_pointer"
    /\ IF i[p] <= ITERATIONS
       THEN /\ PtrCall(p, Cur(p).arg)
            /\ i' = [i EXCEPT ![p] = @ + 1]
            /\ pc' = pc
       ELSE Return(p)
    /\ UNCHANGED <<Frame, wrapped>>

run_function_pointer(p) ==
    /\ At(p, "call") /\ Cur(p).fn = "run_function_pointer"
    /\ IF i[p] < ITERATIONS
       THEN /\ PtrCall(p, Cur(p).arg)
            /\ i' = [i EXCEPT ![p] = @ + 1]
            /\ pc' = pc
       ELSE Return(p)
    /\ UNCHANGED <<Frame, wrapped>>

\* The driver writing a progress line to standard output in every iteration.
run_static_dispatch_printing(p) ==
    /\ At(p, "call") /\ Cur(p).fn = "run_static_dispatch"
    /\ IF i[p] < ITERATIONS
       THEN /\ StaticCall(p, Cur(p).arg)
            /\ i' = [i EXCEPT ![p] = @ + 1]
            /\ pc' = pc
            /\ out' = [out EXCEPT ![p] = Append(@,
                  [trial |-> Cur(p).trial, kind |-> "progress", text |-> "", secs |-> 0])]
       ELSE Return(p) /\ UNCHANGED <<wrapped, out>>
    /\ UNCHANGED <<ITERATIONS, clock, start, duration, constructed, status, fault>>

run_static_dispatch(p) ==
    /\ At(p, "call") /\ Cur(p).fn = "run_static_dispatch"
    /\ IF i[p] < ITERATIONS
       THEN /\ StaticCall(p, Cur(p).arg)
            /\ i' = [i EXCEPT ![p] = @ + 1]
            /\ pc' = pc
       ELSE Return(p) /\ UNCHANGED wrapped
    /\ UNCHANGED Frame

----------------------------------------------------------------------------
(* The statements of main other than the calls of the drivers.             *)

Advance(p) == pc' = [pc EXCEPT ![p] = @ + 1]

\* The line a println! writes: the header text, or the format string with
\* the Duration it is given (duration.as_secs_f64(), in clock ticks).
Line(p) ==
    [trial |-> Cur(p).trial, kind |-> Cur(p).fn, text |-> Cur(p).arg,
     secs |-> IF Cur(p).fn = "time" THEN duration[p] ELSE 0]

\* println!(...) when standard output takes the line.
Println(p) ==
    /\ At(p, "println")
    /\ out' = [out EXCEPT ![p] = Append(@, Line(p))]
    /\ events' = Log(p, Event("print", Cur(p).trial, Cur(p).fn, 0, 0))
    /\ Advance(p)
    /\ UNCHANGED <<ITERATIONS, clock, i, start, duration, constructed,
                   barrier, wrapped, status, fault>>

\* let worker = ConcreteWorker;  let inner = InnerObject;
\* let wrapper = || inner.action();
Let(p) ==
    /\ At(p, "let")
    /\ constructed' = [constructed EXCEPT ![p] = @ \cup {Cur(p).arg}]
    /\ Advance(p)
    /\ UNCHANGED <<ITERATIONS, clock, i, start, duration, barrier, wrapped,
                   out, events, status, fault>>

\* What a read of the monotonic clock may return: no less than any reading
\* handed out before.
Readings == clock .. MaxClock

\* let start = Instant::now();
InstantNow(p) ==
    /\ At(p, "now")
    /\ \E t \in Readings:
          /\ clock' = t
          /\ start' = [start EXCEPT ![p] = t]
          /\ events' = Log(p, Event("now", Cur(p).trial, "start", 0, t))
    /\ Advance(p)
    /\ UNCHANGED <<ITERATIONS, i, duration, constructed, barrier, wrapped,
                   out, status, fault>>

\* A subtraction of Instants the wrong way round: earlier - now.
DurationReversed(earlier, now) == earlier - now

\* Instant::elapsed is Instant::now() - *self, and the difference of two
\* Instants saturates to zero.
DurationSince(earlier, now) == IF now >= earlier THEN now - earlier ELSE 0

\* let duration = start.elapsed();
Elapsed(p) ==
    /\ At(p, "elapsed")
    /\ \E t \in Readings:
          /\ clock' = t
          /\ duration' = [duration EXCEPT ![p] = DurationSince(start[p], t)]
          /\ events' = Log(p, Event("elapsed", Cur(p).trial, "duration", start[p], t))
    /\ Advance(p)
    /\ UNCHANGED <<ITERATIONS, i, start, constructed, barrier, wrapped,
                   out, status, fault>>

\* main ending with exit(1) instead of returning.
MainReturnFailure(p) ==
    /\ status[p] = "running" /\ AtEnd(p)
    /\ status' = [status EXCEPT ![p] = "failed"]
    /\ UNCHANGED <<ITERATIONS, clock, pc, i, start, duration, constructed,
                   barrier, wrapped, out, events, fault>>

\* The closing brace of main: the process exits with status 0.
MainReturn(p) ==
    /\ status[p] = "running" /\ AtEnd(p)
    /\ status' = [status EXCEPT ![p] = "success"]
    /\ UNCHANGED <<ITERATIONS, clock, pc, i, start, duration, constructed,
                   barrier, wrapped, out, events, fault>>

----------------------------------------------------------------------------
(* Environmental faults.  println! panics when the write to standard       *)
(* output fails; Instant::now (and elapsed, which calls it) panics when    *)
(* the clock cannot be read.  main catches nothing, so the panic ends the  *)
(* process with a failure status.                                          *)

Panic(p, what) ==
    /\ status' = [status EXCEPT ![p] = "failed"]
    /\ fault' = [fault EXCEPT ![p] = what]
    /\ UNCHANGED <<ITERATIONS, clock, pc, i, start, duration, constructed,
                   barrier, wrapped, out, events>>

\* A failed write that is dropped: main goes on to its next statement.
PrintlnFailsSwallowed(p) ==
    /\ At(p, "println")
    /\ fault' = [fault EXCEPT ![p] = "stdout"]
    /\ Advance(p)
    /\ UNCHANGED <<ITERATIONS, clock, i, start, duration, constructed,
                   barrier, wrapped, out, events, status>>

PrintlnFails(p) == At(p, "println") /\ Panic(p, "stdout")

InstantNowFails(p) == At(p, "now") /\ Panic(p, "clock")

ElapsedFails(p) == At(p, "elapsed") /\ Panic(p, "clock")

----------------------------------------------------------------------------
Step(p) ==
    \/ Println(p)
    \/ Let(p)
    \/ InstantNow(p)
    \/ run_dynamic_dispatch(p)
    \/ run_function_pointer(p)
    \/ run_static_dispatch(p)
    \/ Elapsed(p)
    \/ MainReturn(p)

EnvFault(p) ==
    \/ PrintlnFails(p)
    \/ InstantNowFails(p)
    \/ ElapsedFails(p)

Next == \E p \in Files: Step(p)

NextEnv == \E p \in Files: Step(p) \/ EnvFault(p)

\* The program in an environment that works.
Spec == Init /\ [][Next]_vars

\* Both programs, each in an environment that works.
SpecBoth == InitBoth /\ [][Next]_vars

\* The program in an environment that may fail.
SpecEnv == Init /\ [][NextEnv]_vars

\* Each process is a running program: it takes its next step.
LiveSpec == Spec /\ \A p \in Files: WF_vars(Step(p))

----------------------------------------------------------------------------
(* What the properties below speak of. *)

Trials == 1 .. 3

\* The unit each trial is to invoke.
Unit(k) ==
    CASE k = 1 -> "ConcreteWorker::do_work"
      [] k = 2 -> "work_function"
      [] k = 3 -> "InnerObject::action"

\* The position in main of the call of trial k's driver.
CallIndex(p, k) ==
    CHOOSE j \in 1 .. Len(main(p)): main(p)[j].op = "call" /\ main(p)[j].trial = k

\* The driver of trial k has returned to main.
Returned(p, k) == status[p] # "idle" /\ pc[p] > CallIndex(p, k)

\* p is inside the driver of the trial of its current statement.
InDriver(p) == At(p, "call")

IsPrefix(a, b) == Len(a) <= Len(b) /\ \A j \in 1 .. Len(a): a[j] = b[j]

\* The lines of a complete run: who they belong to and what they are.
ExpectedReport ==
    << <<1, "header">>, <<1, "time">>, <<2, "header">>, <<2, "time">>,
       <<3, "header">>, <<3, "time">> >>

Report(p) == [j \in 1 .. Len(out[p]) |-> <<out[p][j].trial, out[p][j].kind>>]

\* An event without its clock readings.
Kinds(p) ==
    [j \in 1 .. Len(events[p]) |->
        <<events[p][j].ev, events[p][j].trial, events[p][j].what>>]

CallsOf(p, k) ==
    Cardinality({j \in 1 .. Len(events[p]):
                    events[p][j].ev = "call" /\ events[p][j].trial = k})

----------------------------------------------------------------------------
\* C1: when a loop driver returns, the counter that stands for the opaque
\* body of its unit equals ITERATIONS exactly, for each of the three drivers
\* and for every iteration count; so the three variants agree on the number
\* of invocations once all three have returned.
C1_CounterEqualsIterations ==
    \A p \in Files:
        /\ \A k \in Trials:
              Returned(p, k) =>
                  /\ barrier[p][Unit(k)] = ITERATIONS
                  /\ CallsOf(p, k) = ITERATIONS
        /\ Returned(p, 3) =>
              \A k1, k2 \in Trials: barrier[p][Unit(k1)] = barrier[p][Unit(k2)]

C1_Witness ==
    \E p \in Files:
        /\ ITERATIONS = 3
        /\ Returned(p, 3)
        /\ \A k \in Trials: barrier[p][Unit(k)] = 3

\* C2: the lines on standard output are always a beginning of: header 1,
\* time 1, header 2, time 2, header 3, time 3 (so the header of trial k+1
\* never precedes the elapsed-time line of trial k), and a run that has
\* returned from main has printed exactly these six lines.
C2_ReportsInOrder ==
    \A p \in Files:
        /\ IsPrefix(Report(p), ExpectedReport)
        /\ status[p] = "success" => Report(p) = ExpectedReport

C2_Witness ==
    \E p \in Files: status[p] = "success" /\ Report(p) = ExpectedReport

\* C4: every duration bound or reported is non-negative: the reading taken
\* by elapsed is never earlier than the start it is measured from, and the
\* reported value is their difference.
C4_DurationNonNegative ==
    \A p \in Files:
        /\ duration[p] # Unbound => duration[p] >= 0
        /\ \A j \in 1 .. Len(out[p]): out[p][j].secs >= 0
        /\ \A j \in 1 .. Len(events[p]):
              events[p][j].ev = "elapsed" =>
                  /\ events[p][j].s >= 0
                  /\ events[p][j].t >= events[p][j].s
                  /\ j < Len(events[p]) =>
                        out[p][2 * events[p][j].trial].secs
                            = events[p][j].t - events[p][j].s

C4_Witness ==
    \E p \in Files:
        /\ Len(out[p]) >= 4
        /\ out[p][2].secs = 0
        /\ out[p][4].secs = 1

\* C3: under LiveSpec every run ends: a running process eventually returns
\* from main with status success after its third report; and with an
\* iteration count of zero no unit is ever invoked, while the run still
\* prints its three headers and three elapsed-time lines.
C3_Terminates ==
    /\ \A p \in Files:
          (status[p] = "running") ~> (status[p] = "success" /\ Report(p) = ExpectedReport)
    /\ [](ITERATIONS = 0 =>
             \A p \in Files:
                 /\ \A c \in Callees: barrier[p][c] = 0
                 /\ \A k \in Trials: CallsOf(p, k) = 0)

C3_Witness ==
    \E p \in Files:
        /\ ITERATIONS = 0
        /\ status[p] = "success"
        /\ Report(p) = ExpectedReport
        /\ \A c \in Callees: barrier[p][c] = 0

\* C5 as stated: no run ever ends with a failure status.
C5_NoFailureExit == \A p \in Files: status[p] # "failed"

\* C5, amended: a process ends with a failure status only by the panic of a
\* failed clock read or a failed write to standard output; a run that meets
\* no such fault never fails, and a run that has ended with success has
\* returned from the end of main after its third report.
C5_FailureOnlyByFault ==
    \A p \in Files:
        /\ status[p] = "failed" => fault[p] \in {"clock", "stdout"}
        /\ fault[p] = "none" => status[p] \in {"idle", "running", "success"}
        /\ status[p] = "success" =>
              /\ fault[p] = "none"
              /\ AtEnd(p)
              /\ Report(p) = ExpectedReport

C5_Witness ==
    \E p \in Files:
        status[p] = "success" /\ fault[p] = "none" /\ Report(p) = ExpectedReport

\* What belongs to process p.
Own(p) ==
    <<pc[p], i[p], start[p], duration[p], constructed[p], barrier[p],
      wrapped[p], out[p], events[p]>>

\* C6: a failed clock read or a failed write ends the process at once with
\* a failure status: the step that meets the fault prints and logs nothing
\* and leaves the program counter on the faulting statement, and from then
\* on the process takes no step (no retry, no later trial, no later line).
C6_FaultIsFatal ==
    [][\A p \in Files:
          fault'[p] # "none" =>
              /\ status'[p] = "failed"
              /\ Own(p)' = Own(p)
              /\ fault[p] # "none" => fault'[p] = fault[p] /\ status[p] = "failed"]_vars

C6_Witness ==
    \E p \in Files:
        /\ fault[p] = "stdout"
        /\ status[p] = "failed"
        /\ Report(p) = << <<1, "header">>, <<1, "time">> >>
        /\ Cur(p).trial = 2

\* C7: main moves forward one statement at a time and never back; a driver
\* is left only when its range is exhausted; while a process is inside a
\* driver, a step of it is an invocation of that trial's unit or the return,
\* and neither standard output nor the clock is touched; standard output
\* changes only by a println! statement of main.
C7_SequentialPhases ==
    [][\A p \in Files:
          /\ pc'[p] \in {pc[p], pc[p] + 1}
          /\ out'[p] # out[p] => At(p, "println")
          /\ InDriver(p) /\ Own(p)' # Own(p) =>
                /\ out'[p] = out[p]
                /\ clock' = clock
                /\ \/ /\ pc'[p] = pc[p]
                      /\ i[p] < ITERATIONS
                      /\ events'[p] = Append(events[p],
                            Event("call", Cur(p).trial, Unit(Cur(p).trial), 0, 0))
                   \/ /\ pc'[p] = pc[p] + 1
                      /\ i[p] = ITERATIONS
                      /\ events'[p] = events[p]]_vars

C7_Witness ==
    \E p \in Files:
        /\ InDriver(p)
        /\ Cur(p).trial = 3
        /\ i[p] = 2
        /\ Len(out[p]) = 5

C9_BarrierEachIteration ==
    [][\A p \in Files:
          /\ InDriver(p) => barrier[p][Unit(Cur(p).trial)] = i[p]
          /\ i'[p] = i[p] + 1 =>
                barrier'[p] = [barrier[p] EXCEPT ![Unit(Cur(p).trial)] = @ + 1]
          /\ barrier'[p] # barrier[p] => InDriver(p) /\ i'[p] = i[p] + 1]_vars

C9_Witness ==
    \E p \in Files:
        /\ InDriver(p)
        /\ Cur(p).trial = 2
        /\ i[p] = 3
        /\ barrier[p] = [c \in Callees |-> IF c = "InnerObject::action" THEN 0 ELSE 3]

\* The last clock read by Instant::now before event j of p (0 if none).
LastNow(p, j) ==
    LET S == {n \in 1 .. j - 1: events[p][n].ev = "now"}
    IN  IF S = {} THEN 0 ELSE CHOOSE n \in S: \A m \in S: m <= n

\* C10: the interval of trial k brackets the loop of trial k and nothing
\* else.  The start is read right after the header of trial k is printed;
\* the invocations of trial k follow it; the end is read right after them,
\* ITERATIONS invocations after the start, and is measured from the start
\* read in trial k; the elapsed-time line of trial k comes right after.
C10_IntervalBracketsLoop ==
    \A p \in Files: \A j \in 1 .. Len(events[p]):
        LET e == events[p][j]
            prev == events[p][j - 1]
        IN  /\ e.ev = "now" =>
                  /\ j > 1
                  /\ prev.ev = "print" /\ prev.what = "header" /\ prev.trial = e.trial
            /\ e.ev = "call" =>
                  /\ j > 1
                  /\ prev.trial = e.trial
                  /\ prev.ev = "now" \/ (prev.ev = "call" /\ prev.what = e.what)
            /\ e.ev = "elapsed" =>
                  /\ j > 1
                  /\ prev.trial = e.trial /\ prev.ev \in {"now", "call"}
                  /\ LastNow(p, j) = j - 1 - ITERATIONS
                  /\ events[p][LastNow(p, j)].trial = e.trial
                  /\ events[p][LastNow(p, j)].t = e.s
            /\ e.ev = "print" /\ e.what = "time" =>
                  /\ j > 1
                  /\ prev.ev = "elapsed" /\ prev.trial = e.trial
            /\ e.ev = "print" /\ e.what = "header" =>
                  \/ j = 1
                  \/ prev.ev = "print" /\ prev.what = "time" /\ prev.trial = e.trial - 1

C10_Witness ==
    \E p \in Files:
        /\ ITERATIONS = 2
        /\ Len(events[p]) = 12
        /\ events[p][2].ev = "now" /\ events[p][2].t = 0
        /\ events[p][5].ev = "elapsed" /\ events[p][5].s = 0
        /\ events[p][8].ev = "now" /\ events[p][8].t = 1
        /\ events[p][11].ev = "elapsed" /\ events[p][11].s = 1

============================================================================
